---- MODULE Spec2Model ----
(***************************************************************************)
(* Batch refinement: the per-file pipeline (processFileWithStats), the     *)
(* sub-batch scheduler (runBatchProcessing / processBatchWithStats), the   *)
(* chain reader, key recovery and refinement submitter it awaits, and the  *)
(* results / stats / console streams.                                      *)
(*                                                                         *)
(* Execution model: one JavaScript event loop.  Code between two awaits of *)
(* real I/O runs to completion; every action below is one such stretch,    *)
(* started by the completion of the I/O the instance was suspended on.     *)
(* The outcome of each I/O (chain read, decrypt, POST, file append) is     *)
(* chosen when it completes.  A stage call (getFilePermissions,            *)
(* checkFileRefinement, decryptEEK, refineFile) touches no shared state    *)
(* between its own awaits, so its settlement is one action.                *)
(***************************************************************************)
EXTENDS Integers, Sequences, FiniteSets, TLC

\* ---------------------------------------------------------------- bounds
MaxEndId == 0
MaxWindow == 2
MaxBatch == 2
MaxLogFaults == 2
\* CONFIG.maxLogSize counted in records instead of bytes
maxLogSize == 2
\* longest plaintext key sealed, in characters
MaxKeyLen == 1
\* most calls of decryptEEK on one envelope
MaxCalls == 2

FileIds == 0..(MaxEndId + MaxWindow - 1)

VARIABLES
  mode,        \* "range" (runBatchProcessing) or "index" (runBatchProcessingByIndex)
  startId,     \* first argument of the run
  endId,       \* second argument of the run
  batchSize,   \* third argument of the run
  rpc,         \* where the run is suspended
  id,          \* loop variable of the run
  batchEndId,  \* batchEndId of the current iteration
  stats,       \* run-level statistics object
  batchObjs,   \* the batchStats objects created so far, one per sub-batch
  tasks,       \* file ids of the promises handed to the current Promise.all
  merged,      \* number of batchStats objects merged into stats
  statsLog,    \* records appended to stats.log, in order
  pc,          \* per file: where its processFileWithStats invocation is suspended
  ref,         \* per file: index in batchObjs of the stats object it was given
  out,         \* per file: what its stage calls and its own log writes returned
  did,         \* per file: the increments its invocation performed
  called,      \* per file: the stages invoked, in order
  results,     \* per file: records appended to results.log by processFileWithStats,
               \* decryptEEK and refineFile (the chain readers' stay in their runs)
  console,     \* per file: console lines of processFileWithStats, in order
  logFaults,   \* number of failed log writes so far
  batches,     \* the sub-batches dispatched so far: [from, to] of each, in order
  logPhase,    \* "boot" until setupLogging has run, then "open"
  logFiles,    \* per log file of CONFIG.logDir: its content, a sequence of records
  bakFiles,    \* the renamed log files: [file, content] of each, in order
  diskFaults,  \* per log file: the call of rotateLogFiles on it that fails, if any
  bootLog,     \* the console lines of rotateLogFiles: [file, line] of each, in order
  sealed,      \* the envelope as it was made: plaintext key, key pair, changed
               \* bit, bytes kept
  encryptedEEK,\* first argument of decryptEEK: the envelope as a hex string
  eekFileId,   \* second argument of decryptEEK
  decrypted    \* what the calls of decryptEEK on that envelope returned, in order

vars == <<mode, startId, endId, batchSize, rpc, id, batchEndId, stats, batchObjs,
          tasks, merged, statsLog, pc, ref, out, did, called, results,
          console, logFaults, batches, logPhase, logFiles, bakFiles, diskFaults,
          bootLog, sealed,
          encryptedEEK, eekFileId, decrypted>>

schedVars == <<rpc, id, batchEndId, stats, tasks, batches, merged, statsLog>>
argVars == <<mode, startId, endId, batchSize>>
logVars == <<logPhase, logFiles, bakFiles, diskFaults, bootLog>>
keyVars == <<sealed, encryptedEEK, eekFileId, decrypted>>

\* const logFiles = ["results.log", "stats.log", "console.log"]
Streams == {"results.log", "stats.log", "console.log"}

\* ------------------------------------------------------------- helpers
Max(a, b) == IF a >= b THEN a ELSE b
Min(a, b) == IF a <= b THEN a ELSE b

Counters == {"alreadyRefined", "processed", "failed", "success"}

\* { alreadyRefined: 0, processed: 0, failed: 0, success: 0 }
ZeroStats == [alreadyRefined |-> 0, processed |-> 0, failed |-> 0, success |-> 0]

\* Nothing observed yet: what each stage call returned to processFileWithStats
\* (perm, ref, dec, sub), how its own log writes ended (flog, elog), whether
\* the chain read of checkFileRefinement showed a refinement record (onChain:
\* "refined" / "other") and whether the service answered the POST of
\* refineFile with a success response (posted: "ok" / "error").
NoOut == [perm |-> "none", ref |-> "none", dec |-> "none", sub |-> "none",
          flog |-> "none", elog |-> "none", onChain |-> "none", posted |-> "none"]

\* A lost update: the increment writes back a value read before another
\* instance's increment.
BumpLost(s, c) == [s EXCEPT ![c] = IF @ >= 1 THEN @ ELSE @ + 1]

\* stats.<c>++
Bump(s, c) == [s EXCEPT ![c] = @ + 1]

RECURSIVE BumpAll(_, _)
BumpAll(s, cs) == IF cs = <<>> THEN s ELSE BumpAll(Bump(s, Head(cs)), Tail(cs))

\* The merge written with the batch's failed count added to processed.
MergeStatsWrong(s, b) ==
  [s EXCEPT !.alreadyRefined = @ + b.alreadyRefined,
            !.processed = @ + b.processed + b.failed,
            !.failed = @ + b.failed,
            !.success = @ + b.success]

\* The merge written as an assignment instead of +=.
MergeStatsAssign(s, b) ==
  [s EXCEPT !.alreadyRefined = b.alreadyRefined,
            !.processed = b.processed,
            !.failed = b.failed,
            !.success = b.success]

\* stats.x += batchStats.x for the four counters
MergeStats(s, b) ==
  [s EXCEPT !.alreadyRefined = @ + b.alreadyRefined,
            !.processed = @ + b.processed,
            !.failed = @ + b.failed,
            !.success = @ + b.success]

\* The status column logToFile writes for a log type.
LogStatus(logType) ==
  CASE logType \in {"api-error", "contract-error", "decrypt-error"} -> "ERROR"
    [] logType = "success" -> "SUCCESS"
    [] logType = "failure" -> "FAILED"
    [] OTHER -> "INFO"

\* One results.log record: status column and message.
LogRecord(logType, msg) == [status |-> LogStatus(logType), msg |-> msg]

\* One stats.log record.  s.total || (startId - endId + 1)
StatsRecord(s, from, to, type) ==
  [type |-> type, from |-> from, to |-> to,
   total |-> IF "total" \in DOMAIN s /\ s.total # 0 THEN s.total ELSE from - to + 1,
   alreadyRefined |-> s.alreadyRefined, processed |-> s.processed,
   success |-> s.success, failed |-> s.failed]

\* ------------------------------------------------------------------ Init
\* The state of a run when runBatchProcessing(ByIndex) is entered.
RunInitAt(at) ==
  /\ mode \in {"range", "index"}
  /\ endId \in 0..MaxEndId
  /\ startId \in endId..(endId + MaxWindow - 1)
  /\ batchSize \in 1..MaxBatch
  /\ rpc = at
  /\ id = startId
  /\ batchEndId = startId
  /\ stats = [total |-> startId - endId + 1, alreadyRefined |-> 0, processed |-> 0,
              failed |-> 0, success |-> 0]
  /\ batchObjs = <<>>
  /\ tasks = {}
  /\ batches = <<>>
  /\ merged = 0
  /\ statsLog = <<>>
  /\ pc = [f \in FileIds |-> "idle"]
  /\ ref = [f \in FileIds |-> 0]
  /\ out = [f \in FileIds |-> NoOut]
  /\ did = [f \in FileIds |-> ZeroStats]
  /\ called = [f \in FileIds |-> <<>>]
  /\ results = [f \in FileIds |-> <<>>]
  /\ console = [f \in FileIds |-> <<>>]
  /\ logFaults = 0

\* The state in which runBatchProcessing / runBatchProcessingByIndex is entered.
RunInit == RunInitAt("loop")

\* main() has awaited setupLogging before it starts the run.  The run keeps its
\* streams as record sequences (results, statsLog, console); the size of the
\* files on disk is followed in the logger's own specification below.
Init ==
  /\ RunInit
  /\ logPhase = "open"
  /\ logFiles = [s \in Streams |-> <<>>]
  /\ bakFiles = <<>>
  /\ diskFaults = [s \in Streams |-> "none"]
  /\ bootLog = <<>>
  /\ sealed = [plain |-> <<>>, forKey |-> "operator", flip |-> <<>>, keep |-> -1]
  /\ encryptedEEK = <<>>
  /\ eekFileId = 0
  /\ decrypted = <<>>

\* ------------------------------------------------ the awaited stage calls
\* A run of a stage call: what it returns to its caller (or "throw"), the
\* results.log records it persisted, in order, and how many of its log writes
\* failed.
Ret(v) == {[res |-> v, recs |-> <<>>, faults |-> 0]}

\* await logToFile(logType, fileId, data): the record is persisted and the code
\* goes on as onOk, or the append fails and control passes to onFail (the
\* enclosing catch).
Write(logType, msg, onOk, onFail) ==
  {[r EXCEPT !.recs = <<LogRecord(logType, msg)>> \o @] : r \in onOk}
    \cup {[r EXCEPT !.faults = @ + 1] : r \in onFail}

\* getFilePermissions after provider.call completed with `raw`.
GetFilePermissionsRuns(raw) ==
  LET outer == Write("contract-error", "contract", Ret("absent"), Ret("throw"))
      decode == Write("contract-error", "contract", Ret("absent"), outer)
  IN CASE raw = "key" -> Ret("key")
       [] raw = "empty" -> Ret("absent")
       [] raw = "decodeErr" -> decode
       [] raw = "rpcErr" -> outer

\* checkFileRefinement after provider.call completed with `raw`.
CheckFileRefinementRuns(raw) ==
  LET outer == Write("contract-error", "contract", Ret("false"), Ret("throw"))
      notRefined == Write("info", "not_refined", Ret("false"), outer)
      decode == Write("contract-error", "contract", notRefined, outer)
      refined == Write("info", "already_refined", Ret("true"), outer)
  IN CASE raw = "refined" -> refined
       [] raw = "empty" -> notRefined
       [] raw = "decodeErr" -> decode
       [] raw = "rpcErr" -> outer

\* decryptEEK after eccrypto.decrypt completed with `raw`; the decrypt-error
\* record is written only `if (fileId)`.
DecryptEEKRuns(raw, fileId) ==
  CASE raw = "ok" -> Ret("key")
    [] raw = "fail" /\ fileId # 0 ->
         Write("decrypt-error", "decrypt", Ret("absent"), Ret("throw"))
    [] raw = "fail" /\ fileId = 0 -> Ret("absent")

\* refineFile after axios.post completed with `raw`: a success response with a
\* payload, a success response with an empty body, or a network / non-2xx error.
RefineFileRuns(raw) ==
  LET caught == Write("api-error", "api", Ret("absent"), Ret("throw"))
  IN CASE raw = "payload" -> Write("success", "hash", Ret("data"), caught)
       [] raw = "empty" -> Write("success", "success", Ret("empty"), caught)
       [] raw = "error" -> caught

\* The runs the remaining fault budget allows.
Affordable(runs) == {r \in runs : logFaults + r.faults <= MaxLogFaults}

\* A log write may fail only while the fault budget lasts.
LogOutcomes == {TRUE} \cup (IF logFaults < MaxLogFaults THEN {FALSE} ELSE {})

CountFault(ok) == logFaults' = IF ok THEN logFaults ELSE logFaults + 1

\* --------------------------------------------- the per-file state machine
\* The statistics object shared by all sub-batches: every instance increments
\* the object of the first sub-batch.
FileStepShared(f, newpc, bumps, recs, lines, stages, o) ==
  /\ pc' = [pc EXCEPT ![f] = newpc]
  /\ batchObjs' = [batchObjs EXCEPT ![1] = BumpAll(@, bumps)]
  /\ did' = [did EXCEPT ![f] = BumpAll(@, bumps)]
  /\ results' = [results EXCEPT ![f] = @ \o recs]
  /\ console' = [console EXCEPT ![f] = @ \o lines]
  /\ called' = [called EXCEPT ![f] = @ \o stages]
  /\ out' = [out EXCEPT ![f] = o]
  /\ UNCHANGED <<argVars, logVars, keyVars, schedVars, ref>>

\* One stretch of a processFileWithStats invocation: the new suspension point,
\* the counters incremented, the results.log records it persisted itself (the
\* records of the stage calls are in their runs above), the console lines
\* printed, the stages invoked and the call results observed.
FileStep(f, newpc, bumps, recs, lines, stages, o) ==
  /\ pc' = [pc EXCEPT ![f] = newpc]
  /\ batchObjs' = [batchObjs EXCEPT ![ref[f]] = BumpAll(@, bumps)]
  /\ did' = [did EXCEPT ![f] = BumpAll(@, bumps)]
  /\ results' = [results EXCEPT ![f] = @ \o recs]
  /\ console' = [console EXCEPT ![f] = @ \o lines]
  /\ called' = [called EXCEPT ![f] = @ \o stages]
  /\ out' = [out EXCEPT ![f] = o]
  /\ UNCHANGED <<argVars, logVars, keyVars, schedVars, ref>>

\* A stage call threw into the catch of processFileWithStats: line 59-61.
Caught(f, o) ==
  FileStep(f, "E1", <<>>, <<>>, <<"error">>, <<>>, o)

\* Line 20-26 without the `if (!encryptedEEK) return`: a file with no key goes
\* on to the refinement check.
AfterPermissionNoReturn(f, res, o) ==
  CASE res \in {"key", "absent"} ->
         FileStep(f, "ref", <<>>, <<>>, <<>>, <<"refinement">>, o)
    [] res = "throw" -> Caught(f, o)

\* processFileWithStats resumes with the result of getFilePermissions:
\* line 18-26.
AfterPermission(f, res, o) ==
  CASE res = "key" -> FileStep(f, "ref", <<>>, <<>>, <<>>, <<"refinement">>, o)
    [] res = "absent" -> FileStep(f, "done", <<>>, <<>>, <<"skip-no-eek">>, <<>>, o)
    [] res = "throw" -> Caught(f, o)

\* Line 29-39 without the `return` after stats.alreadyRefined++: a refined
\* file is counted and then decrypted all the same.
AfterRefinementCheckNoReturn(f, res, o) ==
  CASE res = "true" ->
         FileStep(f, "dec", <<"alreadyRefined", "processed">>, <<>>,
                  <<"skip-refined", "needs-refinement">>, <<"decrypt">>, o)
    [] res = "false" ->
         FileStep(f, "dec", <<"processed">>, <<>>, <<"needs-refinement">>,
                  <<"decrypt">>, o)
    [] res = "throw" -> Caught(f, o)

\* processFileWithStats resumes with the result of checkFileRefinement:
\* line 26-39.
AfterRefinementCheck(f, res, o) ==
  CASE res = "true" ->
         FileStep(f, "done", <<"alreadyRefined">>, <<>>, <<"skip-refined">>, <<>>, o)
    [] res = "false" ->
         FileStep(f, "dec", <<"processed">>, <<>>, <<"needs-refinement">>,
                  <<"decrypt">>, o)
    [] res = "throw" -> Caught(f, o)

\* Line 41-51 without the `return` after the failure record of a failed
\* decrypt: the file is counted failed and submitted all the same.
AfterDecryptNoReturn(f, r, o) ==
  CASE r.res = "key" ->
         FileStep(f, "post", <<>>, r.recs, <<"decrypted">>, <<"submit">>, o)
    [] r.res = "absent" ->
         FileStep(f, "post", <<"failed">>, r.recs, <<"decrypt-failed">>, <<"submit">>, o)
    [] r.res = "throw" -> Caught(f, o)

\* processFileWithStats resumes with the run r of decryptEEK: line 39-51.
AfterDecrypt(f, r, o) ==
  CASE r.res = "key" ->
         FileStep(f, "post", <<>>, r.recs, <<"decrypted">>, <<"submit">>, o)
    [] r.res = "absent" ->
         FileStep(f, "F1", <<"failed">>, r.recs, <<"decrypt-failed">>, <<>>, o)
    [] r.res = "throw" -> Caught(f, o)

\* processFileWithStats resumes with the run r of refineFile: line 51-58.
\* An empty response body is falsy and takes the else branch.
AfterRefine(f, r, o) ==
  CASE r.res = "data" -> FileStep(f, "done", <<"success">>, r.recs, <<>>, <<>>, o)
    [] r.res \in {"empty", "absent"} ->
         FileStep(f, "F2", <<"failed">>, r.recs, <<>>, <<>>, o)
    [] r.res = "throw" -> Caught(f, o)

\* getFilePermissions settled.
GetFilePermissionsReturn(f) ==
  /\ pc[f] = "perm"
  /\ \E raw \in {"key", "empty", "decodeErr", "rpcErr"} :
     \E r \in Affordable(GetFilePermissionsRuns(raw)) :
       /\ logFaults' = logFaults + r.faults
       /\ AfterPermission(f, r.res, [out[f] EXCEPT !.perm = r.res])

\* checkFileRefinement settled.
CheckFileRefinementReturn(f) ==
  /\ pc[f] = "ref"
  /\ \E raw \in {"refined", "empty", "decodeErr", "rpcErr"} :
     \E r \in Affordable(CheckFileRefinementRuns(raw)) :
       /\ logFaults' = logFaults + r.faults
       /\ AfterRefinementCheck(f, r.res,
            [out[f] EXCEPT !.ref = r.res,
                           !.onChain = IF raw = "refined" THEN "refined" ELSE "other"])

\* decryptEEK settled.
DecryptReturn(f) ==
  /\ pc[f] = "dec"
  /\ \E raw \in {"ok", "fail"} :
     \E r \in Affordable(DecryptEEKRuns(raw, f)) :
       /\ logFaults' = logFaults + r.faults
       /\ AfterDecrypt(f, r, [out[f] EXCEPT !.dec = r.res])

\* refineFile settled.
RefineFileReturn(f) ==
  /\ pc[f] = "post"
  /\ \E raw \in {"payload", "empty", "error"} :
     \E r \in Affordable(RefineFileRuns(raw)) :
       /\ logFaults' = logFaults + r.faults
       /\ AfterRefine(f, r,
            [out[f] EXCEPT !.sub = r.res,
                           !.posted = IF raw = "error" THEN "error" ELSE "ok"])

\* A logToFile("failure") of processFileWithStats completed
\* (F1: line 44, F2: line 57).
FailureLogReturn(f) ==
  /\ pc[f] \in {"F1", "F2"}
  /\ \E ok \in LogOutcomes :
       /\ CountFault(ok)
       /\ IF ok
            THEN FileStep(f, "done", <<>>,
                          <<LogRecord("failure", IF pc[f] = "F1" THEN "decrypt-eek"
                                                                 ELSE "api-call")>>,
                          <<>>, <<>>, [out[f] EXCEPT !.flog = "ok"])
            ELSE Caught(f, [out[f] EXCEPT !.flog = "fail"])

\* The logToFile("error") of the catch block completed: line 61-62.
ErrorLogReturn(f) ==
  /\ pc[f] = "E1"
  /\ \E ok \in LogOutcomes :
       /\ CountFault(ok)
       /\ IF ok
            THEN FileStep(f, "done", <<"failed">>, <<LogRecord("error", "message")>>,
                          <<>>, <<>>, [out[f] EXCEPT !.elog = "ok"])
            ELSE FileStep(f, "rejected", <<>>, <<>>, <<>>, <<>>,
                          [out[f] EXCEPT !.elog = "fail"])

\* ---------------------------------------------------------- the scheduler
fileVars == <<pc, ref, out, did, called, results, console, batchObjs>>

\* The step written `id -= 1`: sub-batches overlap.
NextIdByOne(i, b) == i - 1

\* The step written `id -= batchSize + 1`: one identifier between two
\* sub-batches is never dispatched.
NextIdSkip(i, b) == i - b - 1

\* id -= batchSize
NextId(i, b) == i - b

\* The sub-batch end written without the `+ 1`: batchSize + 1 identifiers.
BatchEndOffByOne(i, e, b) == Max(e, i - b)

\* Math.max(endId, id - batchSize + 1)
BatchEnd(i, e, b) == Max(e, i - b + 1)

\* One loop iteration up to `await Promise.all(tasks)`: every
\* processFileWithStats call runs to its first await (provider.call).
DispatchBatch ==
  /\ rpc = "loop"
  /\ mode = "range"
  /\ id >= endId
  /\ LET be == BatchEnd(id, endId, batchSize)
         fs == be..id
     IN /\ batchEndId' = be
        /\ batchObjs' = Append(batchObjs, ZeroStats)
        /\ tasks' = fs
        /\ batches' = Append(batches, [from |-> id, to |-> be])
        /\ ref' = [f \in FileIds |-> IF f \in fs THEN Len(batchObjs) + 1 ELSE ref[f]]
        /\ pc' = [f \in FileIds |-> IF f \in fs THEN "perm" ELSE pc[f]]
        /\ called' = [f \in FileIds |->
                        IF f \in fs THEN called[f] \o <<"permission">> ELSE called[f]]
        /\ console' = [f \in FileIds |->
                         IF f \in fs THEN console[f] \o <<"checking">> ELSE console[f]]
  /\ rpc' = "await"
  /\ UNCHANGED <<argVars, logVars, keyVars, id, stats, merged, statsLog, out, did, results,
                 logFaults>>

\* Promise.all resolved: merge and call logStats(batchStats, ..., "PROGRESS").
BatchResolved ==
  /\ rpc = "await"
  /\ \A f \in tasks : pc[f] = "done"
  /\ stats' = MergeStats(stats, batchObjs[Len(batchObjs)])
  /\ merged' = merged + 1
  /\ rpc' = "progress"
  /\ UNCHANGED <<argVars, logVars, keyVars, id, batchEndId, tasks, batches, statsLog, fileVars,
                 logFaults>>

\* Promise.all rejected with the first rejected promise: the run rejects.
BatchRejected ==
  /\ rpc = "await"
  /\ \E f \in tasks : pc[f] = "rejected"
  /\ rpc' = "aborted"
  /\ UNCHANGED <<argVars, logVars, keyVars, id, batchEndId, stats, tasks, batches, merged,
                 statsLog, fileVars, logFaults>>

\* The appendFile of the PROGRESS record completed; id -= batchSize.
ProgressLogged ==
  /\ rpc = "progress"
  /\ \E ok \in LogOutcomes :
       /\ CountFault(ok)
       /\ IF ok
            THEN /\ statsLog' = Append(statsLog,
                      StatsRecord(batchObjs[Len(batchObjs)], id, batchEndId, "PROGRESS"))
                 /\ id' = NextId(id, batchSize)
                 /\ rpc' = "loop"
            ELSE /\ rpc' = "aborted"
                 /\ UNCHANGED <<statsLog, id>>
  /\ UNCHANGED <<argVars, logVars, keyVars, batchEndId, stats, tasks, batches, merged, fileVars>>

\* The loop ended: call logStats(stats, startId, endId, "COMPLETE").
StartComplete ==
  /\ rpc = "loop"
  /\ id < endId
  /\ rpc' = "complete"
  /\ UNCHANGED <<argVars, logVars, keyVars, id, batchEndId, stats, tasks, batches, merged,
                 statsLog, fileVars, logFaults>>

\* The appendFile of the COMPLETE record completed; the run returns stats.
CompleteLogged ==
  /\ rpc = "complete"
  /\ \E ok \in LogOutcomes :
       /\ CountFault(ok)
       /\ IF ok
            THEN /\ statsLog' = Append(statsLog,
                                       StatsRecord(stats, startId, endId, "COMPLETE"))
                 /\ rpc' = "done"
            ELSE /\ rpc' = "aborted"
                 /\ UNCHANGED statsLog
  /\ UNCHANGED <<argVars, logVars, keyVars, id, batchEndId, stats, tasks, batches, merged, fileVars>>

\* runBatchProcessingByIndex: `await getFileAtIndex(i)` calls a name the
\* contract module does not export, so the call throws a TypeError and the
\* run rejects before any file is resolved.
ResolveIndex ==
  /\ rpc = "loop"
  /\ mode = "index"
  /\ id >= endId
  /\ batchEndId' = BatchEnd(id, endId, batchSize)
  /\ rpc' = "aborted"
  /\ UNCHANGED <<argVars, logVars, keyVars, id, stats, tasks, batches, merged, statsLog,
                 fileVars, logFaults>>

Next ==
  \/ DispatchBatch
  \/ BatchResolved
  \/ BatchRejected
  \/ ProgressLogged
  \/ StartComplete
  \/ CompleteLogged
  \/ ResolveIndex
  \/ \E f \in FileIds : GetFilePermissionsReturn(f)
  \/ \E f \in FileIds : CheckFileRefinementReturn(f)
  \/ \E f \in FileIds : DecryptReturn(f)
  \/ \E f \in FileIds : RefineFileReturn(f)
  \/ \E f \in FileIds : FailureLogReturn(f)
  \/ \E f \in FileIds : ErrorLogReturn(f)

Spec == Init /\ [][Next]_vars

\* The run under the hypothesis that every external call (chain read,
\* decrypt, submit, log write) eventually returns: whatever the run awaits
\* settles, so it never stops while a step is open to it.
SpecFair == Spec /\ WF_vars(Next)

\* ------------------------------------------------------------------ main
\* main() after parseArgs and setupLogging, at the head of its try block; it
\* runs the window in range mode (main never calls runBatchProcessingByIndex).
InitMain ==
  /\ RunInitAt("startup")
  /\ mode = "range"
  /\ logPhase = "open"
  /\ logFiles = [s \in Streams |-> <<>>]
  /\ bakFiles = <<>>
  /\ diskFaults = [s \in Streams |-> "none"]
  /\ bootLog = <<>>
  /\ sealed = [plain |-> <<>>, forKey |-> "operator", flip |-> <<>>, keep |-> -1]
  /\ encryptedEEK = <<>>
  /\ eekFileId = 0
  /\ decrypted = <<>>

\* The START line of initializeStatsLog.
StartRecord == [type |-> "START", from |-> startId, to |-> endId, batchSize |-> batchSize]

\* validateConfig() or initializeContract() throws (a required environment
\* variable is missing, the provider or wallet cannot be built): the catch of
\* main reports it and calls process.exit(1).
StartupFails ==
  /\ rpc = "startup"
  /\ rpc' = "exit1"
  /\ UNCHANGED <<argVars, logVars, keyVars, id, batchEndId, stats, tasks, batches, merged,
                 statsLog, fileVars, logFaults>>

\* validateConfig() and initializeContract() return; initializeStatsLog
\* appends the START line, reporting a failed write on the console without
\* throwing; runBatchProcessing is entered.
StartupDone ==
  /\ rpc = "startup"
  /\ \E ok \in LogOutcomes :
       /\ CountFault(ok)
       /\ statsLog' = IF ok THEN Append(statsLog, StartRecord) ELSE statsLog
  /\ rpc' = "loop"
  /\ UNCHANGED <<argVars, logVars, keyVars, id, batchEndId, stats, tasks, batches, merged,
                 fileVars>>

\* runBatchProcessing rejected: the catch of main reports it and calls
\* process.exit(1), which also ends the instances still in flight.
MainCatch ==
  /\ rpc = "aborted"
  /\ rpc' = "exit1"
  /\ UNCHANGED <<argVars, logVars, keyVars, id, batchEndId, stats, tasks, batches, merged,
                 statsLog, fileVars, logFaults>>

\* runBatchProcessing returned: main returns and the process ends with status 0.
MainReturn ==
  /\ rpc = "done"
  /\ rpc' = "exit0"
  /\ UNCHANGED <<argVars, logVars, keyVars, id, batchEndId, stats, tasks, batches, merged,
                 statsLog, fileVars, logFaults>>

\* The process has ended.
Exited == rpc \in {"exit0", "exit1"}

NextMain ==
  \/ StartupFails
  \/ StartupDone
  \/ MainCatch
  \/ MainReturn
  \/ ~Exited /\ DispatchBatch
  \/ ~Exited /\ BatchResolved
  \/ ~Exited /\ BatchRejected
  \/ ~Exited /\ ProgressLogged
  \/ ~Exited /\ StartComplete
  \/ ~Exited /\ CompleteLogged
  \/ \E f \in FileIds : ~Exited /\ GetFilePermissionsReturn(f)
  \/ \E f \in FileIds : ~Exited /\ CheckFileRefinementReturn(f)
  \/ \E f \in FileIds : ~Exited /\ DecryptReturn(f)
  \/ \E f \in FileIds : ~Exited /\ RefineFileReturn(f)
  \/ \E f \in FileIds : ~Exited /\ FailureLogReturn(f)
  \/ \E f \in FileIds : ~Exited /\ ErrorLogReturn(f)

SpecMain == InitMain /\ [][NextMain]_vars

\* ------------------------------------------------------------ the logger
\* The log directory over one process lifetime: setupLogging runs once, before
\* anything else of main(), and from then on logToFile, logStats and the
\* console overrides append to the three files.  A file's size is the number
\* of records it holds.
runVars == <<argVars, schedVars, fileVars, logFaults>>

\* The longest file followed: two records past the threshold.
MaxLogLen == maxLogSize + 2

\* A file of n records; record k is the k-th record appended to it.
RECURSIVE Content(_)
Content(n) == IF n = 0 THEN <<>> ELSE Append(Content(n - 1), n)

\* The order of the loop in rotateLogFiles.
StreamOrder == <<"results.log", "stats.log", "console.log">>

\* The process starts on a log directory left by earlier runs.
InitLog ==
  /\ RunInit
  /\ mode = "range"
  /\ startId = endId
  /\ batchSize = 1
  /\ logPhase = "boot"
  /\ logFiles \in [Streams -> {Content(n) : n \in 0..(maxLogSize + 1)}]
  /\ bakFiles = <<>>
  /\ diskFaults \in [Streams -> {"none", "stat", "rename"}]
  /\ bootLog = <<>>
  /\ sealed = [plain |-> <<>>, forKey |-> "operator", flip |-> <<>>, keep |-> -1]
  /\ encryptedEEK = <<>>
  /\ eekFileId = 0
  /\ decrypted = <<>>

\* The inner catch of rotateLogFiles rethrowing instead of reporting: the
\* loop is left at the first file whose stat or rename fails.
CatchRotateErrorRethrow(acc, file, code) == [acc EXCEPT !.thrown = TRUE]

\* The inner catch of rotateLogFiles: a file that does not exist yet is fine,
\* any other error is reported on the console; the loop goes on.
CatchRotateError(acc, file, code) ==
  IF code = "ENOENT" THEN acc
  ELSE [acc EXCEPT !.lines = Append(@, [file |-> file, line |-> "error"])]

\* One turn of the loop of rotateLogFiles: stat the file, compare its size
\* with CONFIG.maxLogSize, rename it to <file>.<timestamp>.bak.  A file with
\* no record does not exist; `fault` is the call that fails, if any.
RotateFile(acc, file, fault) ==
  IF acc.files[file] = <<>> THEN CatchRotateError(acc, file, "ENOENT")
  ELSE IF fault = "stat" THEN CatchRotateError(acc, file, "EACCES")
  ELSE IF Len(acc.files[file]) <= maxLogSize THEN acc
  ELSE IF fault = "rename" THEN CatchRotateError(acc, file, "EACCES")
  ELSE [acc EXCEPT !.files[file] = <<>>,
                   !.baks = Append(@, [file |-> file, content |-> acc.files[file]]),
                   !.lines = Append(@, [file |-> file, line |-> "rotated"])]

\* The loop from its i-th file on; an error that escapes a turn ends it.
RECURSIVE RotateFrom(_, _, _)
RotateFrom(i, acc, faults) ==
  IF i > Len(StreamOrder) \/ acc.thrown THEN acc
  ELSE RotateFrom(i + 1, RotateFile(acc, StreamOrder[i], faults[StreamOrder[i]]), faults)

\* rotateLogFiles from entry to return: the loop inside the outer try, whose
\* catch reports the error and returns.
RotateLogFilesRun(faults) ==
  LET acc == RotateFrom(1, [files |-> logFiles, baks |-> bakFiles, lines |-> <<>>,
                            thrown |-> FALSE], faults)
  IN IF acc.thrown
       THEN [acc EXCEPT !.lines = Append(@, [file |-> "", line |-> "error"]),
                        !.thrown = FALSE]
       ELSE acc

\* setupLogging: await rotateLogFiles(), then the console overrides are
\* installed and main goes on; a rotateLogFiles that threw would reject
\* setupLogging and main with it.
RotateLogFiles ==
  /\ logPhase = "boot"
  /\ LET r == RotateLogFilesRun(diskFaults)
     IN /\ logFiles' = r.files
        /\ bakFiles' = r.baks
        /\ bootLog' = r.lines
        /\ logPhase' = IF r.thrown THEN "aborted" ELSE "open"
  /\ UNCHANGED <<diskFaults, runVars, keyVars>>

\* fs.appendFile(path.join(CONFIG.logDir, file), record): the record goes to
\* the end of the file, which is created when it does not exist.
AppendFile(file) ==
  /\ logPhase = "open"
  /\ Len(logFiles[file]) < MaxLogLen
  /\ logFiles' = [logFiles EXCEPT ![file] = Append(@, Len(@) + 1)]
  /\ UNCHANGED <<logPhase, bakFiles, diskFaults, bootLog, runVars, keyVars>>

\* logToFile: the last statement, after the record was formatted.
LogToFileAppend == AppendFile("results.log")

\* logStats
LogStatsAppend == AppendFile("stats.log")

\* The console.log / console.error overrides installed by setupLogging.
ConsoleAppend == AppendFile("console.log")

NextLog ==
  \/ RotateLogFiles
  \/ LogToFileAppend
  \/ LogStatsAppend
  \/ ConsoleAppend

SpecLog == InitLog /\ [][NextLog]_vars

\* ------------------------------------------------------- the key envelope
\* decryptEEK on one envelope.  A Buffer is a sequence of bytes 0..255, a hex
\* string a sequence of digits 0..15 (16 stands for any other character), a
\* string a sequence of code points.

\* Buffer.from(str, "hex"): two digits a byte; decoding stops at the first
\* pair that is not two hex digits, and a trailing single digit is dropped.
FromHex(h) ==
  LET n == Len(h) \div 2
      bad == {i \in 1..n : h[2 * i - 1] > 15 \/ h[2 * i] > 15}
      k == IF bad = {} THEN n ELSE (CHOOSE i \in bad : \A j \in bad : i <= j) - 1
  IN [i \in 1..k |-> 16 * h[2 * i - 1] + h[2 * i]]

\* buf.slice(start, end): a negative index counts from the end, both indices
\* are clamped to 0..buf.length, bytes start .. end - 1 (from 0).
SliceIndex(i, n) == IF i < 0 THEN Max(n + i, 0) ELSE Min(i, n)

Slice(buf, start, end) ==
  LET from == SliceIndex(start, Len(buf))
      to == SliceIndex(end, Len(buf))
  IN IF from < to THEN SubSeq(buf, from + 1, to) ELSE <<>>

\* The four regions decryptEEK cuts out of the envelope.
SliceEnvelope(buf) ==
  [iv |-> Slice(buf, 0, 16),
   ephemPublicKey |-> Slice(buf, 16, 81),
   ciphertext |-> Slice(buf, 81, Len(buf) - 32),
   mac |-> Slice(buf, Len(buf) - 32, Len(buf))]

\* buf.toString(): UTF-8 decoding, here for sequences of one and two bytes; a
\* byte that starts no such sequence becomes U+FFFD.
RECURSIVE Utf8Decode(_)
Utf8Decode(buf) ==
  IF buf = <<>> THEN <<>>
  ELSE IF buf[1] < 128 THEN <<buf[1]>> \o Utf8Decode(Tail(buf))
  ELSE IF buf[1] \in 194..223 /\ Len(buf) >= 2 /\ buf[2] \in 128..191
    THEN <<(buf[1] - 192) * 64 + (buf[2] - 128)>> \o Utf8Decode(Tail(Tail(buf)))
  ELSE <<65533>> \o Utf8Decode(Tail(buf))

\* eccrypto (ECIES: key agreement, a symmetric cipher, a MAC over iv, public
\* key and ciphertext) is a package outside the repository.  It is followed
\* here by its contract only: both sides of a key pair derive the same secret,
\* the tag depends on the secret and on every byte it covers, and decrypt
\* rejects unless the regions have their sizes and the tag matches.
KeyByte(key) == IF key = "operator" THEN 1 ELSE 2

RECURSIVE SumBytes(_)
SumBytes(buf) == IF buf = <<>> THEN 0 ELSE Head(buf) + SumBytes(Tail(buf))

Tag(key, iv, pub, ct) ==
  [j \in 1..32 |-> (KeyByte(key) + SumBytes(iv \o pub \o ct) + j) % 256]

Cipher(key, plain) == [i \in 1..Len(plain) |-> (plain[i] + KeyByte(key)) % 256]
Decipher(key, ct) == [i \in 1..Len(ct) |-> (ct[i] + 256 - KeyByte(key)) % 256]

\* await eccrypto.decrypt(privateKeyBuffer, {iv, ephemPublicKey, ciphertext, mac})
EccryptoDecrypt(key, parts) ==
  IF /\ Len(parts.iv) = 16
     /\ Len(parts.ephemPublicKey) = 65
     /\ parts.ephemPublicKey[1] = 4
     /\ Len(parts.mac) = 32
     /\ parts.mac = Tag(key, parts.iv, parts.ephemPublicKey, parts.ciphertext)
    THEN [ok |-> TRUE, plain |-> Decipher(key, parts.ciphertext)]
    ELSE [ok |-> FALSE, plain |-> <<>>]

\* The sender's side: the key as UTF-8 bytes, sealed for a key pair, the four
\* regions concatenated and written as a hex string.
RECURSIVE Utf8Encode(_)
Utf8Encode(str) ==
  IF str = <<>> THEN <<>>
  ELSE (IF Head(str) < 128 THEN <<Head(str)>>
        ELSE <<192 + (Head(str) \div 64), 128 + (Head(str) % 64)>>)
         \o Utf8Encode(Tail(str))

ToHex(buf) ==
  [i \in 1..(2 * Len(buf)) |->
     IF i % 2 = 1 THEN (buf[(i + 1) \div 2]) \div 16 ELSE (buf[i \div 2]) % 16]

SealBytes(key, str) ==
  LET iv == [i \in 1..16 |-> 7]
      pub == <<4>> \o [i \in 1..64 |-> 9]
      ct == Cipher(key, Utf8Encode(str))
  IN iv \o pub \o ct \o Tag(key, iv, pub, ct)

\* Bit `bit` of the byte at place `at` (from 1) changed.
FlipBit(buf, at, bit) ==
  LET w == 2 ^ bit
  IN [buf EXCEPT ![at] = IF (@ \div w) % 2 = 1 THEN @ - w ELSE @ + w]

\* The envelope of `s`: sealed, then one bit of the authentication-code region
\* (the last 32 bytes) changed when s.flip = <<byte, bit>>, then cut down to
\* its first s.keep bytes unless s.keep = -1.
EnvelopeOf(s) ==
  LET buf == SealBytes(s.forKey, s.plain)
      flipped == IF s.flip = <<>> THEN buf
                 ELSE FlipBit(buf, Len(buf) - 32 + s.flip[1], s.flip[2])
  IN ToHex(IF s.keep = -1 THEN flipped ELSE SubSeq(flipped, 1, s.keep))

\* The plaintext keys sealed: one code point of one byte and one of two.
RECURSIVE Strings(_)
Strings(n) ==
  IF n = 0 THEN {<<>>}
  ELSE Strings(n - 1) \cup {Append(str, c) : str \in Strings(n - 1), c \in {65, 233}}

\* decryptEEK(encryptedEEK, fileId) once eccrypto.decrypt has settled: the
\* text returned (or absent, or the call throws) and the failed log writes.
DecryptEEK(hex, fileId) ==
  LET d == EccryptoDecrypt("operator", SliceEnvelope(FromHex(hex)))
  IN {[res |-> r.res,
       text |-> IF r.res = "key" THEN Utf8Decode(d.plain) ELSE <<>>,
       recs |-> r.recs,
       faults |-> r.faults] :
        r \in DecryptEEKRuns(IF d.ok THEN "ok" ELSE "fail", fileId)}

InitKey ==
  /\ RunInit
  /\ mode = "range"
  /\ startId = endId
  /\ batchSize = 1
  /\ logPhase = "open"
  /\ logFiles = [s \in Streams |-> <<>>]
  /\ bakFiles = <<>>
  /\ diskFaults = [s \in Streams |-> "none"]
  /\ bootLog = <<>>
  /\ sealed \in [plain : Strings(MaxKeyLen) \ {<<>>},
                 forKey : {"operator", "other"},
                 flip : {<<>>} \cup ((1..32) \X (0..7)),
                 keep : {-1}]
                \cup [plain : Strings(MaxKeyLen) \ {<<>>},
                      forKey : {"operator"},
                      flip : {<<>>},
                      keep : {0, 16, 81, 112}]
  /\ encryptedEEK = EnvelopeOf(sealed)
  /\ eekFileId \in {0, 1}
  /\ decrypted = <<>>

\* One call decryptEEK(encryptedEEK, eekFileId) from entry to return.
DecryptEEKCall ==
  /\ Len(decrypted) < MaxCalls
  /\ \E r \in Affordable(DecryptEEK(encryptedEEK, eekFileId)) :
       /\ decrypted' = Append(decrypted,
                              [res |-> r.res, text |-> r.text, recs |-> r.recs])
       /\ logFaults' = logFaults + r.faults
  /\ UNCHANGED <<argVars, schedVars, fileVars, logVars, sealed, encryptedEEK, eekFileId>>

NextKey == DecryptEEKCall

SpecKey == InitKey /\ [][NextKey]_vars

\* ------------------------------------------------------------ vocabulary
Window == endId..startId
WindowSize == startId - endId + 1

Range(q) == {q[i] : i \in DOMAIN q}

InFlight(f) == pc[f] \notin {"idle", "done", "rejected"}

\* ceil(n / b) for n >= 0, b >= 1
CeilDiv(n, b) == (n + b - 1) \div b

\* The sum of g[x] over the x in S.
RECURSIVE SumOver(_, _)
SumOver(S, g) ==
  IF S = {} THEN 0 ELSE LET x == CHOOSE y \in S : TRUE
                        IN g[x] + SumOver(S \ {x}, g)

\* What one processFileWithStats invocation adds to its statistics object as
\* a function of what its awaited calls returned: the sequential reading of
\* line 13-64.  The catch adds 1 to failed when its own log write succeeds.
FileDelta(o) ==
  LET caught == IF o.elog = "ok" THEN 1 ELSE 0
      failedBranch == IF o.dec = "absent" \/ o.sub \in {"absent", "empty"} THEN 1 ELSE 0
  IN CASE o.perm # "key" -> [ZeroStats EXCEPT !.failed = caught]
       [] o.ref = "true" -> [ZeroStats EXCEPT !.alreadyRefined = 1]
       [] o.ref = "false" ->
            [alreadyRefined |-> 0, processed |-> 1,
             failed |-> failedBranch + caught,
             success |-> IF o.sub = "data" THEN 1 ELSE 0]
       [] OTHER -> [ZeroStats EXCEPT !.failed = caught]

\* ------------------------------------------------------------------ C1
\* C1: every fault of a file's pipeline stays inside its processFileWithStats
\* invocation: no invocation rejects, a caught fault is counted as failed, and
\* the run is never aborted by a file.
C1_FaultContained ==
  /\ \A f \in FileIds : pc[f] # "rejected"
  /\ \A f \in FileIds :
       (pc[f] = "done" /\ "error" \in Range(console[f])) => did[f].failed >= 1

\* ------------------------------------------------------------------ C2
\* C2: in every reachable state every statistics object, run level and
\* sub-batch level, has processed = success + failed.
C2_ProcessedIsSuccessPlusFailed ==
  /\ stats.processed = stats.success + stats.failed
  /\ \A k \in DOMAIN batchObjs :
       batchObjs[k].processed = batchObjs[k].success + batchObjs[k].failed

\* ------------------------------------------------------------------ C3
\* C3: in every reachable state the run-level statistics have
\* alreadyRefined + processed <= total, and a file whose permission lookup
\* returned no key has incremented neither alreadyRefined nor processed.
C3_RefinedPlusProcessedWithinTotal ==
  /\ stats.alreadyRefined + stats.processed <= stats.total
  /\ \A f \in FileIds :
       out[f].perm = "absent" => did[f].alreadyRefined = 0 /\ did[f].processed = 0

C3_Witness ==
  /\ rpc = "done"
  /\ stats.total = 2
  /\ \E f \in Window : out[f].perm = "absent" /\ pc[f] = "done"
  /\ \E f \in Window : did[f].processed = 1
  /\ stats.alreadyRefined + stats.processed = 1

\* ------------------------------------------------------------------ C4
\* C4: the statistics a run returns are the sum, over the identifiers of the
\* window, of what each file's call outcomes contribute, whatever sub-batches
\* the files were dispatched in; the sum does not mention batchSize, so two
\* runs of one window with the same per-file outcomes return the same
\* statistics for every batch size.
C4_StatsIndependentOfBatchSize ==
  rpc = "done" =>
    /\ stats.total = WindowSize
    /\ \A f \in Window : pc[f] = "done"
    /\ \A c \in Counters :
         stats[c] = SumOver(Window, [f \in Window |-> FileDelta(out[f])[c]])

C4_Witness ==
  /\ rpc = "done"
  /\ WindowSize = 2
  /\ batchSize = 1
  /\ Len(batchObjs) = 2
  /\ batchObjs[1].success = 1
  /\ batchObjs[2].failed = 1
  /\ stats.success = 1
  /\ stats.failed = 1

\* ------------------------------------------------------------------ C5
\* C5: when the run completes, processed = success + failed and
\* alreadyRefined + processed is the number of window identifiers whose
\* permission lookup returned a key.
C5_FinalAccounting ==
  rpc = "done" =>
    /\ stats.processed = stats.success + stats.failed
    /\ stats.alreadyRefined + stats.processed
         = Cardinality({f \in Window : out[f].perm = "key"})

C7_AlreadyRefinedCountsOnce ==
  \A f \in FileIds :
    out[f].ref = "true" =>
      /\ out[f].perm = "key"
      /\ did[f] = [ZeroStats EXCEPT !.alreadyRefined = 1]
      /\ called[f] = <<"permission", "refinement">>
      /\ pc[f] = "done"

C7_Witness ==
  /\ \E f \in FileIds : out[f].ref = "true" /\ pc[f] = "done"
  /\ rpc = "done"
  /\ stats.alreadyRefined = WindowSize

\* ------------------------------------------------------------------ C8
\* The barrier alone: the instances in flight all belong to the sub-batch
\* created last, and while the run is between sub-batches none is in flight.
SubBatchBarrier ==
  /\ \A f \in FileIds : InFlight(f) => ref[f] = Len(batchObjs)
  /\ rpc \in {"loop", "progress", "complete", "done"} =>
       \A f \in FileIds : ~InFlight(f)

\* C8: sub-batch k+1 is dispatched only after every instance of sub-batch k
\* is terminal, instances of two sub-batches are never in flight together,
\* and no instance ends in an unhandled fault.
C8_BarrierAndNoUnhandledFault ==
  /\ SubBatchBarrier
  /\ \A f \in FileIds : pc[f] # "rejected"

\* ------------------------------------------------------------------ C9
\* C9: no increment is lost: each counter of each sub-batch statistics object
\* equals the number of increments its instances performed on it, in every
\* state and so when the sub-batch resolves.
C9_NoLostUpdate ==
  \A k \in DOMAIN batchObjs :
    \A c \in Counters :
      batchObjs[k][c] = SumOver({f \in FileIds : ref[f] = k},
                                [f \in FileIds |-> did[f][c]])

C9_Witness ==
  /\ rpc = "progress"
  /\ \E f, g \in tasks :
       /\ f # g
       /\ did[f].processed = 1 /\ did[g].processed = 1
       /\ did[f].failed = 1 /\ did[g].failed = 1
  /\ batchObjs[Len(batchObjs)].processed = 2
  /\ batchObjs[Len(batchObjs)].failed = 2

\* ----------------------------------------------------------------- C10
SameCounts(r, s) == \A c \in Counters : r[c] = s[c]

\* C10: the stats stream holds one PROGRESS record per sub-batch, each written
\* after that sub-batch was merged and carrying its counts, and a completed
\* run holds exactly ceil(N / b) of them followed by one COMPLETE record that
\* carries the returned statistics.
C10_StatsStreamOrder ==
  /\ \A i \in DOMAIN statsLog :
       \/ /\ statsLog[i].type = "PROGRESS"
          /\ i <= merged
          /\ SameCounts(statsLog[i], batchObjs[i])
       \/ /\ statsLog[i].type = "COMPLETE"
          /\ i = Len(statsLog)
          /\ rpc = "done"
  /\ rpc = "done" =>
       /\ Len(statsLog) = CeilDiv(WindowSize, batchSize) + 1
       /\ statsLog[Len(statsLog)].type = "COMPLETE"
       /\ SameCounts(statsLog[Len(statsLog)], stats)
       /\ statsLog[Len(statsLog)].total = stats.total

C10_Witness ==
  /\ rpc = "done"
  /\ WindowSize = 2
  /\ batchSize = 1
  /\ Len(statsLog) = 3
  /\ statsLog[1].processed = 1
  /\ statsLog[2].alreadyRefined = 1
  /\ statsLog[3].processed = 1
  /\ statsLog[3].alreadyRefined = 1

\* ----------------------------------------------------------------- C11
\* C11: over a window in which every file has a key on the chain and is
\* already refined on the chain, no file has decryptEEK or refineFile invoked,
\* and the finished run returns alreadyRefined = window size with processed,
\* success and failed all 0.
C11_Idempotence ==
  LET refinedOnChain(f) == out[f].perm = "key" /\ out[f].onChain = "refined"
  IN /\ \A f \in FileIds :
          refinedOnChain(f) =>
            "decrypt" \notin Range(called[f]) /\ "submit" \notin Range(called[f])
     /\ (rpc = "done" /\ \A f \in Window : refinedOnChain(f)) =>
          /\ stats.alreadyRefined = WindowSize
          /\ stats.processed = 0
          /\ stats.success = 0
          /\ stats.failed = 0

\* ----------------------------------------------------------------- C12
\* C12: the statistics a finished run returns count the per-file outcome
\* classes: alreadyRefined the keyed files already refined, processed the
\* keyed files not yet refined, success those of them whose decrypt and submit
\* both returned a result, failed those whose decrypt or submit returned
\* absent; files without a key are counted nowhere.
C12_CountsFollowOutcomeClasses ==
  rpc = "done" =>
    LET keyed == {f \in Window : out[f].perm = "key"}
        refined == {f \in keyed : out[f].onChain = "refined"}
        fresh == {f \in keyed : out[f].onChain = "other"}
        ok == {f \in fresh : out[f].dec = "key" /\ out[f].sub = "data"}
        bad == {f \in fresh : out[f].dec = "absent" \/ out[f].sub \in {"absent", "empty"}}
    IN /\ stats.alreadyRefined = Cardinality(refined)
       /\ stats.processed = Cardinality(fresh)
       /\ stats.success = Cardinality(ok)
       /\ stats.failed = Cardinality(bad)

\* ----------------------------------------------------------------- C13
\* C13: for each of the three log files, an append that finds the file larger
\* than the threshold renames it exactly once and writes the record into a
\* fresh file, and a renamed file keeps its content.
C13_RotationOnAppend ==
  [][/\ \A s \in Streams :
          (logPhase = "open" /\ Len(logFiles[s]) > maxLogSize
             /\ logFiles'[s] # logFiles[s])
            => /\ Len(logFiles'[s]) = 1
               /\ bakFiles' = Append(bakFiles, [file |-> s, content |-> logFiles[s]])
     /\ \A i \in DOMAIN bakFiles : bakFiles'[i] = bakFiles[i]]_vars

\* ----------------------------------------------------------------- C14
\* C14: refineFile returns the payload of the response whenever the service
\* answered the POST with a success response, it returns absent exactly when
\* the POST failed (network or non-success response), and a file whose POST
\* got a success response ends counted in success and not in failed.
C14_PostSuccessCountsSuccess ==
  \A f \in FileIds :
    /\ out[f].posted = "ok" => out[f].sub \in {"data", "empty"}
    /\ out[f].posted = "error" => out[f].sub = "absent"
    /\ (out[f].posted = "ok" /\ pc[f] = "done") =>
         did[f].success = 1 /\ did[f].failed = 0

\* ----------------------------------------------------------------- C15
\* C15: every call of decryptEEK on an envelope sealed for the operator's key
\* pair returns the plaintext key that was sealed, every call on an envelope
\* with one bit of the authentication-code region changed returns absent,
\* and all calls on one envelope end the same way.
C15_EnvelopeRoundTrip ==
  \A i \in DOMAIN decrypted :
    /\ (sealed.forKey = "operator" /\ sealed.flip = <<>> /\ sealed.keep = -1) =>
         decrypted[i].res = "key" /\ decrypted[i].text = sealed.plain
    /\ sealed.flip # <<>> => decrypted[i].res = "absent"
    /\ decrypted[i] = decrypted[1]

\* ----------------------------------------------------------------- C16
\* The stages of processFileWithStats in the order of the code.
StageOrder == <<"permission", "refinement", "decrypt", "submit">>

IsPrefix(p, q) == Len(p) <= Len(q) /\ \A i \in 1..Len(p) : p[i] = q[i]

\* C16: the stages invoked for a file are an initial part of permission
\* lookup, refinement check, decrypt, submit, each at most once, and a stage
\* is invoked only when the stage before it returned its non-terminal result:
\* key present, not refined, key decrypted.
C16_StageOrder ==
  \A f \in FileIds :
    /\ IsPrefix(called[f], StageOrder)
    /\ "refinement" \in Range(called[f]) => out[f].perm = "key"
    /\ "decrypt" \in Range(called[f]) => out[f].ref = "false"
    /\ "submit" \in Range(called[f]) => out[f].dec = "key"

C16_Witness ==
  /\ rpc = "done"
  /\ \E f \in FileIds : called[f] = StageOrder /\ did[f].success = 1
  /\ \E f \in FileIds :
       called[f] = <<"permission", "refinement", "decrypt">> /\ out[f].dec = "absent"

\* ----------------------------------------------------------------- C17
\* The identifiers of a dispatched sub-batch.
BatchIds(b) == b.to..b.from

\* C17: the sub-batches dispatched so far are non-empty, hold at most
\* batchSize identifiers, lie inside the window, start at startId and each
\* next one starts right below the end of the one before it (contiguous,
\* disjoint, descending); an identifier has been handed to
\* processFileWithStats exactly once if it lies in a dispatched sub-batch and
\* never otherwise, none outside the window ever; and when the run is done
\* every identifier of the window has been dispatched.
C17_WindowPartition ==
  /\ \A i \in DOMAIN batches :
       /\ batches[i].to <= batches[i].from
       /\ batches[i].from - batches[i].to + 1 <= batchSize
       /\ batches[i].to >= endId
       /\ batches[i].from = IF i = 1 THEN startId ELSE batches[i - 1].to - 1
       /\ batches[i].to = Max(endId, batches[i].from - batchSize + 1)
  /\ \A f \in FileIds :
       Cardinality({i \in DOMAIN batches : f \in BatchIds(batches[i])})
         = IF pc[f] = "idle" THEN 0 ELSE 1
  /\ \A f \in FileIds \ Window : pc[f] = "idle"
  /\ rpc = "done" => \A f \in Window : pc[f] = "done"

C17_Witness ==
  /\ rpc = "done"
  /\ WindowSize = 2
  /\ batches = <<[from |-> startId, to |-> startId], [from |-> endId, to |-> endId]>>

\* ----------------------------------------------------------------- C18
\* C18: the run-level statistics change only in the merge step, taken when no
\* instance is in flight and every dispatched instance has resolved, and by
\* adding the sub-batch object created last; an instance that increments a
\* counter changes the statistics object of the sub-batch that dispatched it
\* and no other, and a sub-batch object changes only by an instance of its
\* own sub-batch.
C18_StatisticsOwnership ==
  [][/\ stats' # stats =>
          /\ rpc = "await" /\ rpc' = "progress"
          /\ \A f \in FileIds : ~InFlight(f)
          /\ \A f \in tasks : pc[f] = "done"
          /\ stats' = MergeStats(stats, batchObjs[Len(batchObjs)])
     /\ \A f \in FileIds :
          did'[f] # did[f] =>
            /\ stats' = stats
            /\ \A k \in DOMAIN batchObjs : batchObjs'[k] # batchObjs[k] <=> k = ref[f]
     /\ \A k \in DOMAIN batchObjs :
          batchObjs'[k] # batchObjs[k] =>
            \E f \in FileIds : ref[f] = k /\ InFlight(f) /\ did'[f] # did[f]]_vars

C18_Witness ==
  /\ merged = 1
  /\ stats.processed = 1
  /\ Len(batchObjs) = 2
  /\ batchObjs[2].processed = 1
  /\ \E f \in FileIds : InFlight(f) /\ ref[f] = 2 /\ did[f].processed = 1

\* ----------------------------------------------------------------- C19
\* C19: in every reachable state, in range mode and in index mode, the number
\* of processFileWithStats instances in flight is at most batchSize.
C19_ConcurrencyWindow ==
  Cardinality({f \in FileIds : InFlight(f)}) <= batchSize

C19_Witness ==
  /\ batchSize = 2
  /\ Cardinality({f \in FileIds : InFlight(f)}) = 2
  /\ \E f, g \in FileIds : pc[f] = "post" /\ pc[g] = "ref"

\* ----------------------------------------------------------------- C20
\* C20: getFilePermissions never raises to processFileWithStats, and a file
\* for which it returned absent is skipped with no counter incremented.
C20_PermissionLookupNeverRaises ==
  \A f \in FileIds :
    /\ out[f].perm # "throw"
    /\ out[f].perm = "absent" => did[f] = ZeroStats /\ pc[f] = "done"

\* ----------------------------------------------------------------- C21
\* The chain read results of checkFileRefinement that show no decoded
\* refinement record.
Uncertain == {"empty", "decodeErr", "rpcErr"}

\* C21: a keyed file whose refinement read showed no decoded refinement record
\* has checkFileRefinement return false, processed incremented and decryptEEK
\* invoked; every run of checkFileRefinement on such a read that returns
\* persisted an info or a contract-error record; and true is returned only
\* for a decoded refinement record.
C21_LenientRefinementCheck ==
  /\ \A f \in FileIds :
       /\ out[f].onChain = "other" =>
            /\ out[f].ref = "false"
            /\ did[f].processed = 1
            /\ "decrypt" \in Range(called[f])
       /\ out[f].ref = "true" => out[f].onChain = "refined"
  /\ \A raw \in Uncertain :
       \A r \in CheckFileRefinementRuns(raw) :
         r.res # "throw" =>
           \E i \in DOMAIN r.recs : r.recs[i].status \in {"INFO", "ERROR"}

\* ----------------------------------------------------------------- C22
\* The envelopes decryptEEK has to refuse: shorter than 81 + 32 bytes, sealed
\* for another key pair, or with a changed authentication code.
Refused(s) == s.keep # -1 \/ s.forKey # "operator" \/ s.flip # <<>>

\* C22: no call of decryptEEK throws, for fileId 0 and for any other, and
\* every call on an envelope it has to refuse returns absent and persists
\* exactly one decrypt-error record.
C22_DecryptNeverRaises ==
  \A i \in DOMAIN decrypted :
    /\ decrypted[i].res # "throw"
    /\ Refused(sealed) =>
         /\ decrypted[i].res = "absent"
         /\ decrypted[i].recs = <<LogRecord("decrypt-error", "decrypt")>>

\* ----------------------------------------------------------------- C23
\* C23: in index mode the run is never abandoned because of the resolver (an
\* abandoned run has a rejected instance or a failed log write behind it);
\* once the indices of a sub-batch are resolved each of them has either
\* started one instance or added 1 to the run-level failed counter and
\* started none.
C23_IndexMode ==
  mode = "index" =>
    /\ rpc = "aborted" => logFaults > 0 \/ \E f \in FileIds : pc[f] = "rejected"
    /\ rpc # "loop" =>
         /\ Cardinality({i \in batchEndId..id : pc[i] = "idle"}) <= stats.failed
         /\ Cardinality({i \in batchEndId..id : pc[i] # "idle"}) <= batchSize

\* ----------------------------------------------------------------- C24
\* C24: in range mode, when every external call eventually returns, the run
\* eventually has the COMPLETE record with the aggregate statistics as the
\* last record of stats.log and has returned.
C24_RunCompletes ==
  mode = "range" =>
    <>(/\ rpc = "done"
       /\ statsLog # <<>>
       /\ statsLog[Len(statsLog)] = StatsRecord(stats, startId, endId, "COMPLETE"))

\* ----------------------------------------------------------------- C25
\* C25: the process exits with a non-zero status only from startup
\* validation, with no START, PROGRESS or COMPLETE record written and no file
\* dispatched; once processing has started no fault of a file leads to a
\* non-zero exit.
C25_FatalExitOnlyAtStartup ==
  rpc = "exit1" =>
    /\ statsLog = <<>>
    /\ \A f \in FileIds : pc[f] = "idle" /\ results[f] = <<>>

\* ----------------------------------------------------------------- C26
HasRecord(f, status) == \E i \in DOMAIN results[f] : results[f][i].status = status

\* C26: a fault caught by the catch of processFileWithStats whose record was
\* written is in results.log with status ERROR and the fault's message, a
\* decrypt or submit failure whose record was written is there with status
\* FAILED, and a successful refinement with status SUCCESS.
C26_OutcomeStatuses ==
  \A f \in FileIds :
    /\ out[f].elog = "ok" =>
         \E i \in DOMAIN results[f] :
           results[f][i] = [status |-> "ERROR", msg |-> "message"]
    /\ out[f].flog = "ok" => HasRecord(f, "FAILED")
    /\ did[f].success = 1 => HasRecord(f, "SUCCESS")

\* ----------------------------------------------------------------- C27
\* The stat or rename of a log file fails during rotateLogFiles.
RotationFails(file) ==
  /\ logFiles[file] # <<>>
  /\ \/ diskFaults[file] = "stat"
     \/ diskFaults[file] = "rename" /\ Len(logFiles[file]) > maxLogSize

\* C27: rotateLogFiles always returns and setupLogging goes on; a file whose
\* stat or rename failed is left as it was with the failure reported for it,
\* and every other file over the threshold is renamed with its content, also
\* when an earlier file of the loop failed.
C27_RotationFailureContained ==
  [][logPhase = "boot" =>
       /\ logPhase' = "open"
       /\ \A s \in Streams :
            /\ RotationFails(s) =>
                 /\ logFiles'[s] = logFiles[s]
                 /\ \E i \in DOMAIN bootLog' : bootLog'[i] = [file |-> s, line |-> "error"]
            /\ (~RotationFails(s) /\ Len(logFiles[s]) > maxLogSize) =>
                 /\ logFiles'[s] = <<>>
                 /\ \E i \in DOMAIN bakFiles' :
                      bakFiles'[i] = [file |-> s, content |-> logFiles[s]]]_vars

C27_Witness ==
  /\ logPhase = "open"
  /\ bootLog = <<[file |-> "results.log", line |-> "error"],
                 [file |-> "stats.log", line |-> "rotated"]>>
  /\ Len(logFiles["results.log"]) = maxLogSize + 2
  /\ logFiles["stats.log"] = <<1>>
  /\ Len(bakFiles) = 1

\* ----------------------------------------------------------------- C28
\* C28: an invocation of processFileWithStats adds at most 1 to failed, at
\* most 1 to success, never to both, and to either only after it added 1 to
\* processed.
C28_OneTerminalOutcome ==
  \A f \in FileIds :
    /\ did[f].failed <= 1
    /\ did[f].success <= 1
    /\ did[f].failed + did[f].success <= 1
    /\ did[f].failed + did[f].success >= 1 => did[f].processed = 1

====
